---- MODULE Spec2Model ----
(***************************************************************************)
(* A model of src/main.rs: the varint decoder, the serial-type rule, the   *)
(* page fetch and the leaf-page record decoder, and the catalog lookups    *)
(* built on them.                                                          *)
(*                                                                         *)
(* Numbers.  A u64 is the set of its one-bits (positions 0..63), so that   *)
(* shifts lose the bits Rust's << loses and no 64-bit value has to fit a   *)
(* model-checker integer.  u16 and usize values that index the page are    *)
(* plain naturals.  usize is taken to be 64 bits wide.                     *)
(*                                                                         *)
(* Arithmetic overflow.  rustc compiles +, - and * on integers to a panic  *)
(* when overflow checks are on (the dev profile) and to wrapping           *)
(* arithmetic when they are off (the release profile).  The variable       *)
(* overflow_checks is the profile of the build; both are explored.         *)
(*                                                                         *)
(* Outcomes.  Every operation ends in one of three ways: it returns Ok, it *)
(* returns Err (an anyhow error handed to the caller), or it panics        *)
(* (an index or slice out of range, an overflow with checks on).           *)
(***************************************************************************)
EXTENDS Integers, Sequences, FiniteSets, TLC

VARIABLES
    overflow_checks,  \* the build: TRUE panics on overflow, FALSE wraps
    file,             \* the container file's bytes
    db,               \* the Db struct: [page_size, num_of_tables]
    call,             \* the operation invoked last: [op, bytes, num]
    ret,              \* its outcome: [kind, val, msg]
    fetched           \* the page numbers get_page was called with during it

vars == <<overflow_checks, file, db, call, ret, fetched>>

----------------------------------------------------------------------------
(* Outcomes *)

Ok(v) == [kind |-> "Ok", val |-> v, msg |-> ""]

Err(m) == [kind |-> "Err", val |-> <<>>, msg |-> m]

Panic(m) == [kind |-> "Panic", val |-> <<>>, msg |-> m]

NoCall == [op |-> "none", bytes |-> <<>>, num |-> 0]

NoRet == [kind |-> "none", val |-> <<>>, msg |-> ""]

----------------------------------------------------------------------------
(* u64 values as sets of bit positions *)

U64Bits == 64

BitsOf(n) == {i \in 0..30 : (n \div (2 ^ i)) % 2 = 1}

RECURSIVE ToNat(_)
ToNat(S) == IF S = {} THEN 0
            ELSE LET i == CHOOSE j \in S : TRUE IN (2 ^ i) + ToNat(S \ {i})

\* the value is below 2^30, so it and a page offset added to it are naturals
FitsNat(S) == \A i \in S : i < 30

\* u64 << s for 0 <= s < 64: the bits shifted past bit 63 are lost
Shl(S, s) == {i + s : i \in {j \in S : j + s < U64Bits}}

\* u64 | u64
BitOr(S, T) == S \cup T

\* u64 / 2
Half(S) == {i - 1 : i \in S \ {0}}

\* u64 - k for a constant 0 < k < 2^16, in wrapping arithmetic
WrappingSub(S, k) ==
    LET low == ToNat({i \in S : i < 16})
        high == {i \in S : i >= 16}
        borrowed == IF high = {} THEN 16..(U64Bits - 1)
                    ELSE LET j == CHOOSE m \in high : \A o \in high : m <= o
                         IN (high \ {j}) \cup (16..(j - 1))
    IN IF low >= k THEN BitsOf(low - k) \cup high
       ELSE BitsOf(65536 + low - k) \cup borrowed

\* u64 < k for a constant k < 2^30
LessThan(S, k) == FitsNat(S) /\ ToNat(S) < k

----------------------------------------------------------------------------
(* decode_varint *)

RECURSIVE varint_loop(_, _, _, _)
varint_loop(bytes, result, shift, bytes_read) ==
    IF bytes_read >= Len(bytes) THEN Err("no next byte")
    ELSE LET byte == bytes[bytes_read + 1]
             n == bytes_read + 1
         IN IF n = 9
            THEN Ok(<<BitOr(Shl(result, shift), BitsOf(byte)), n>>)
            ELSE LET r == BitOr(Shl(result, shift), BitsOf(byte % 128))
                 IN IF byte < 128 THEN Ok(<<r, n>>)
                    ELSE varint_loop(bytes, r, shift + 7, n)

\* a mutant: the loop without the cap at nine bytes
RECURSIVE varint_loop_uncapped(_, _, _, _)
varint_loop_uncapped(bytes, result, shift, bytes_read) ==
    IF bytes_read >= Len(bytes) THEN Err("no next byte")
    ELSE IF bytes[bytes_read + 1] < 128
    THEN Ok(<<BitOr(Shl(result, shift), BitsOf(bytes[bytes_read + 1])),
              bytes_read + 1>>)
    ELSE varint_loop_uncapped(bytes,
             BitOr(Shl(result, shift), BitsOf(bytes[bytes_read + 1] % 128)),
             shift + 7, bytes_read + 1)

decode_varint_uncapped(bytes) == varint_loop_uncapped(bytes, {}, 0, 0)

decode_varint(bytes) == varint_loop(bytes, {}, 0, 0)

----------------------------------------------------------------------------
(* get_type_definition *)

get_type_definition(type_code, oc) ==
    IF LessThan(type_code, 7)
    THEN LET c == ToNat(type_code)
         IN Ok(CASE c = 0 -> <<"Null", {}>>
                 [] c = 1 -> <<"Int8", BitsOf(1)>>
                 [] c = 2 -> <<"Int16", BitsOf(2)>>
                 [] c = 3 -> <<"Int24", BitsOf(3)>>
                 [] c = 4 -> <<"Int32", BitsOf(4)>>
                 [] c = 5 -> <<"Int48", BitsOf(6)>>
                 [] c = 6 -> <<"Int64", BitsOf(8)>>)
    ELSE IF 0 \notin type_code
    THEN IF oc /\ LessThan(type_code, 12)
         THEN Panic("attempt to subtract with overflow")
         ELSE Ok(<<"Unknown", Half(WrappingSub(type_code, 12))>>)
    ELSE IF oc /\ LessThan(type_code, 13)
         THEN Panic("attempt to subtract with overflow")
         ELSE Ok(<<"String", Half(WrappingSub(type_code, 13))>>)

----------------------------------------------------------------------------
(* u16 arithmetic: a negative result stands for the overflow panic *)

sub_u16(a, b, oc) ==
    IF a >= b THEN a - b ELSE IF oc THEN -1 ELSE a - b + 65536

add_u16(a, b, oc) ==
    IF a + b < 65536 THEN a + b ELSE IF oc THEN -1 ELSE a + b - 65536

\* a * b for a, b < 2^16 without leaving 32-bit integers
mul_u16(a, b, oc) ==
    IF a = 0 \/ b <= 65535 \div a THEN a * b
    ELSE IF oc THEN -1
    ELSE (((a % 256) * b) + ((((a \div 256) * b) % 256) * 256)) % 65536

----------------------------------------------------------------------------
(* Db::new *)

HeaderBytes == 108

DbNew(f) ==
    IF Len(f) < HeaderBytes THEN Err("failed to fill whole buffer")
    ELSE Ok([page_size |-> f[17] * 256 + f[18],
             num_of_tables |-> f[104] * 256 + f[105]])

----------------------------------------------------------------------------
(* Db::get_page: the span of the file it reads *)

FileHeaderLen == 100

page_start_offset(page_number) == IF page_number = 1 THEN FileHeaderLen ELSE 0

fetch_span(self, page_number, oc) ==
    LET start_offset == page_start_offset(page_number)
        pn == sub_u16(page_number, 1, oc)
        len == sub_u16(self.page_size, start_offset, oc)
        prod == mul_u16(pn, self.page_size, oc)
        off == add_u16(prod, start_offset, oc)
    IN IF pn < 0 THEN Panic("attempt to subtract with overflow")
       ELSE IF len < 0 THEN Panic("attempt to subtract with overflow")
       ELSE IF prod < 0 THEN Panic("attempt to multiply with overflow")
       ELSE IF off < 0 THEN Panic("attempt to add with overflow")
       ELSE Ok(<<off, len>>)

\* File::seek then File::read_exact
read_exact(f, off, len) ==
    IF off + len > Len(f) THEN Err("failed to fill whole buffer")
    ELSE Ok(SubSeq(f, off + 1, off + len))

----------------------------------------------------------------------------
(* std::str::from_utf8: is the slice well-formed UTF-8 *)

IsCont(b) == b >= 128 /\ b <= 191

RECURSIVE is_utf8(_, _)
is_utf8(bs, i) ==
    IF i > Len(bs) THEN TRUE
    ELSE LET b == bs[i]
             has(k) == i + k <= Len(bs)
             c(k) == bs[i + k]
         IN IF b < 128 THEN is_utf8(bs, i + 1)
            ELSE IF b >= 194 /\ b <= 223
            THEN has(1) /\ IsCont(c(1)) /\ is_utf8(bs, i + 2)
            ELSE IF b >= 224 /\ b <= 239
            THEN /\ has(2)
                 /\ IsCont(c(1)) /\ IsCont(c(2))
                 /\ (b = 224 => c(1) >= 160)
                 /\ (b = 237 => c(1) <= 159)
                 /\ is_utf8(bs, i + 3)
            ELSE IF b >= 240 /\ b <= 244
            THEN /\ has(3)
                 /\ IsCont(c(1)) /\ IsCont(c(2)) /\ IsCont(c(3))
                 /\ (b = 240 => c(1) >= 144)
                 /\ (b = 244 => c(1) <= 143)
                 /\ is_utf8(bs, i + 4)
            ELSE FALSE

----------------------------------------------------------------------------
(* DataValue *)

DataString(s) == [tag |-> "String", s |-> s, i |-> 0]

DataInt(n) == [tag |-> "Int", s |-> <<>>, i |-> n]

DataNull == [tag |-> "Null", s |-> <<>>, i |-> 0]

DataUnknown == [tag |-> "Unknown", s |-> <<>>, i |-> 0]

\* byte as i8 (i8::from_be of one byte changes nothing)
as_i8(b) == IF b >= 128 THEN b - 256 ELSE b

\* i8 as u16: the sign is extended
as_u16(n) == IF n < 0 THEN n + 65536 ELSE n

----------------------------------------------------------------------------
(* Db::get_page: one cell.  Each step takes the outcome of the read before
   it as a parameter: the ? operator hands an Err (and a panic unwinds)
   straight to the caller. *)

\* decode_varint(&bytes_to_read[row_offset..])
varint_at(buf, row_offset) ==
    IF row_offset > Len(buf) THEN Panic("range start index out of range")
    ELSE decode_varint(SubSeq(buf, row_offset + 1, Len(buf)))

RECURSIVE header_loop(_, _, _, _, _)

\* the body of the while loop once the type code is decoded
push_type_definition(buf, row_offset, header_end_offset, oc, type_definitions, td) ==
    IF td.kind # "Ok" THEN td
    ELSE header_loop(buf, row_offset, header_end_offset, oc,
                     Append(type_definitions, td.val))

next_type_code(buf, row_offset, header_end_offset, oc, type_definitions, v) ==
    IF v.kind # "Ok" THEN v
    ELSE push_type_definition(buf, row_offset + v.val[2], header_end_offset, oc,
                              type_definitions,
                              get_type_definition(v.val[1], oc))

header_loop(buf, row_offset, header_end_offset, oc, type_definitions) ==
    IF row_offset >= header_end_offset
    THEN Ok([type_definitions |-> type_definitions, row_offset |-> row_offset])
    ELSE IF header_end_offset > Len(buf)
    THEN Panic("range end index out of range")
    ELSE next_type_code(buf, row_offset, header_end_offset, oc, type_definitions,
             decode_varint(SubSeq(buf, row_offset + 1, header_end_offset)))

\* what the header of a cell came to: the type definitions, the cursor after
\* the loop, and where the header started and was declared to end
header_read(header_start, header_size, lp) ==
    IF lp.kind # "Ok" THEN lp
    ELSE Ok([type_definitions |-> lp.val.type_definitions,
             row_offset |-> lp.val.row_offset,
             header_start |-> header_start,
             header_size |-> header_size,
             header_end_offset |-> header_start + header_size])

\* A header size of 2^30 or more puts header_end_offset past every page (the
\* sum cannot wrap: the shifts of decode_varint leave bits 7..48 clear), so
\* the loop is entered and its first slice is out of range.
read_header_size(buf, row_offset, oc, v) ==
    IF v.kind # "Ok" THEN v
    ELSE IF ~FitsNat(v.val[1]) THEN Panic("range end index out of range")
    ELSE header_read(row_offset, ToNat(v.val[1]),
                     header_loop(buf, row_offset + v.val[2],
                                 row_offset + ToNat(v.val[1]), oc, <<>>))

read_row_id(buf, row_offset, oc, v) ==
    IF v.kind # "Ok" THEN v
    ELSE read_header_size(buf, row_offset + v.val[2], oc,
                          varint_at(buf, row_offset + v.val[2]))

read_cell_size(buf, row_offset, oc, v) ==
    IF v.kind # "Ok" THEN v
    ELSE read_row_id(buf, row_offset + v.val[2], oc,
                     varint_at(buf, row_offset + v.val[2]))

decode_header(buf, cell_offset, oc) ==
    read_cell_size(buf, cell_offset, oc, varint_at(buf, cell_offset))

RECURSIVE values_loop(_, _, _, _, _)

\* the match on the data type of one column
push_value(buf, type_definitions, k, values_end, row_data, tag, value_bytes) ==
    IF tag = "String"
    THEN IF is_utf8(value_bytes, 1)
         THEN values_loop(buf, type_definitions, k + 1, values_end,
                          Append(row_data, DataString(value_bytes)))
         ELSE Err("invalid utf-8 sequence")
    ELSE values_loop(buf, type_definitions, k + 1, values_end,
             Append(row_data,
                    IF tag = "Int8" THEN DataInt(as_i8(value_bytes[1]))
                    ELSE IF tag = "Null" THEN DataNull
                    ELSE DataUnknown))

\* A width of 2^30 or more ends the slice past every page; widths are
\* halves, so values_offset + value_length cannot wrap.
values_loop(buf, type_definitions, k, values_offset, row_data) ==
    IF k > Len(type_definitions) THEN Ok(row_data)
    ELSE IF \/ ~FitsNat(type_definitions[k][2])
            \/ values_offset + ToNat(type_definitions[k][2]) > Len(buf)
    THEN Panic("range end index out of range")
    ELSE push_value(buf, type_definitions, k,
                    values_offset + ToNat(type_definitions[k][2]), row_data,
                    type_definitions[k][1],
                    SubSeq(buf, values_offset + 1,
                           values_offset + ToNat(type_definitions[k][2])))

read_values(buf, h) ==
    IF h.kind # "Ok" THEN h
    ELSE values_loop(buf, h.val.type_definitions, 1, h.val.header_end_offset,
                     <<>>)

decode_cell(buf, cell_offset, oc) ==
    read_values(buf, decode_header(buf, cell_offset, oc))

----------------------------------------------------------------------------
(* Db::get_page: the cells of the page *)

\* the i-th entry (from 0) of the cell-pointer array, less the page's start
cell_offset_of(buf, start_offset, i, oc) ==
    IF mul_u16(i, 2, oc) < 0 THEN Panic("attempt to multiply with overflow")
    ELSE IF \/ 8 + mul_u16(i, 2, oc) >= Len(buf)
            \/ 8 + add_u16(mul_u16(i, 2, oc), 1, oc) >= Len(buf)
    THEN Panic("index out of bounds")
    ELSE IF sub_u16(buf[8 + mul_u16(i, 2, oc) + 1] * 256
                        + buf[8 + add_u16(mul_u16(i, 2, oc), 1, oc) + 1],
                    start_offset, oc) < 0
    THEN Panic("attempt to subtract with overflow")
    ELSE Ok(sub_u16(buf[8 + mul_u16(i, 2, oc) + 1] * 256
                        + buf[8 + add_u16(mul_u16(i, 2, oc), 1, oc) + 1],
                    start_offset, oc))

RECURSIVE cells_loop(_, _, _, _, _, _)

\* a mutant: rows.insert(0, row_data)
push_row_front(buf, start_offset, oc, i, num_of_cells, rows, cell) ==
    IF cell.kind # "Ok" THEN cell
    ELSE cells_loop(buf, start_offset, oc, i + 1, num_of_cells,
                    <<cell.val>> \o rows)

\* rows.push(row_data), and on to the next cell
push_row(buf, start_offset, oc, i, num_of_cells, rows, cell) ==
    IF cell.kind # "Ok" THEN cell
    ELSE cells_loop(buf, start_offset, oc, i + 1, num_of_cells,
                    Append(rows, cell.val))

read_cell(buf, start_offset, oc, i, num_of_cells, rows, at) ==
    IF at.kind # "Ok" THEN at
    ELSE push_row(buf, start_offset, oc, i, num_of_cells, rows,
                  decode_cell(buf, at.val, oc))

cells_loop(buf, start_offset, oc, i, num_of_cells, rows) ==
    IF i >= num_of_cells THEN Ok(rows)
    ELSE read_cell(buf, start_offset, oc, i, num_of_cells, rows,
                   cell_offset_of(buf, start_offset, i, oc))

num_of_cells_of(buf) == buf[4] * 256 + buf[5]

decode_page(buf, start_offset, oc) ==
    IF Len(buf) < 5 THEN Panic("index out of bounds")
    ELSE cells_loop(buf, start_offset, oc, 0, num_of_cells_of(buf), <<>>)

read_page(rd, start_offset, oc) ==
    IF rd.kind # "Ok" THEN rd ELSE decode_page(rd.val, start_offset, oc)

seek_and_read(f, span, start_offset, oc) ==
    IF span.kind # "Ok" THEN span
    ELSE read_page(read_exact(f, span.val[1], span.val[2]), start_offset, oc)

get_page(self, f, page_number, oc) ==
    seek_and_read(f, fetch_span(self, page_number, oc),
                  page_start_offset(page_number), oc)

\* what one call of get_page asks of the file: <<page, offset, length>>, the
\* offset and length negative when the call panics before it seeks
span_asked(page_number, span) ==
    IF span.kind = "Ok" THEN <<page_number, span.val[1], span.val[2]>>
    ELSE <<page_number, -1, -1>>

fetch_of(self, page_number, oc) ==
    span_asked(page_number, fetch_span(self, page_number, oc))

----------------------------------------------------------------------------
(* Db::get_table_configs, Db::get_table_names, Db::get_table_page *)

\* row.get(index).unwrap_or(&DataValue::Unknown)
column(row, index) == IF index < Len(row) THEN row[index + 1] ELSE DataUnknown

config_table_name(row) ==
    IF column(row, 2).tag = "String" THEN column(row, 2).s ELSE <<>>

config_page_number(row) ==
    IF column(row, 3).tag = "Int" THEN column(row, 3).i ELSE 0

\* a mutant: a row is dropped only when both its name and its page are missing
table_config_both(row) ==
    IF config_table_name(row) = <<>> /\ config_page_number(row) = 0 THEN <<>>
    ELSE <<[table_name |-> config_table_name(row),
            page_number |-> config_page_number(row)]>>

\* the closure of filter_map: no config, or the one the row gives
table_config(row) ==
    IF config_table_name(row) = <<>> \/ config_page_number(row) = 0 THEN <<>>
    ELSE <<[table_name |-> config_table_name(row),
            page_number |-> config_page_number(row)]>>

RECURSIVE filter_map_configs(_, _)
filter_map_configs(rows, k) ==
    IF k > Len(rows) THEN <<>>
    ELSE table_config(rows[k]) \o filter_map_configs(rows, k + 1)

configs_of(page) ==
    IF page.kind # "Ok" THEN page ELSE Ok(filter_map_configs(page.val, 1))

get_table_configs(self, f, oc) == configs_of(get_page(self, f, 1, oc))

names_of(table_configs) ==
    IF table_configs.kind # "Ok" THEN table_configs
    ELSE Ok([k \in 1..Len(table_configs.val) |->
                 table_configs.val[k].table_name])

get_table_names(self, f, oc) == names_of(get_table_configs(self, f, oc))

\* a mutant: names are compared without regard to ASCII case
LowerCase(name) ==
    [i \in 1..Len(name) |->
        IF name[i] >= 65 /\ name[i] <= 90 THEN name[i] + 32 ELSE name[i]]

find_config_ignore_case(configs, table_name) ==
    IF \A k \in 1..Len(configs) :
            LowerCase(configs[k].table_name) # LowerCase(table_name)
    THEN 0
    ELSE CHOOSE k \in 1..Len(configs) :
            /\ LowerCase(configs[k].table_name) = LowerCase(table_name)
            /\ \A o \in 1..(k - 1) :
                  LowerCase(configs[o].table_name) # LowerCase(table_name)

\* configs.iter().find(..): the index of the first match, or 0
find_config(configs, table_name) ==
    IF \A k \in 1..Len(configs) : configs[k].table_name # table_name THEN 0
    ELSE CHOOSE k \in 1..Len(configs) :
            /\ configs[k].table_name = table_name
            /\ \A o \in 1..(k - 1) : configs[o].table_name # table_name

\* self.get_page(config.page_number as u16), and the calls of get_page made
page_of_config(self, f, oc, first, page_number) ==
    [out |-> get_page(self, f, page_number, oc),
     fetched |-> <<first, fetch_of(self, page_number, oc)>>]

look_up(self, f, table_name, oc, first, configs, k) ==
    IF k = 0 THEN [out |-> Err("No data for table"), fetched |-> <<first>>]
    ELSE page_of_config(self, f, oc, first,
                        as_u16(configs[k].page_number))

table_page_of(self, f, table_name, oc, first, configs) ==
    IF configs.kind # "Ok" THEN [out |-> configs, fetched |-> <<first>>]
    ELSE look_up(self, f, table_name, oc, first, configs.val,
                 find_config(configs.val, table_name))

\* the outcome, and the calls of get_page made on the way
get_table_page(self, f, table_name, oc) ==
    table_page_of(self, f, table_name, oc, fetch_of(self, 1, oc),
                  get_table_configs(self, f, oc))

----------------------------------------------------------------------------
(* Container files the operations are run on *)

\* cells per catalog page
MaxCells == 2

\* page numbers get_page is called with directly: the file holds three pages
MaxPage == 4

\* the page size the files of the record decoder's runs declare
PageSize == 160

\* bytes of a varint input
MaxVarintLen == 10

\* serial type codes
MaxTypeCode == 60

U16BE(n) == <<n \div 256, n % 256>>

Zeros(n) == [i \in 1..n |-> 0]

SeqsUpTo(S, n) == UNION {[1..k -> S] : k \in 0..n}

RECURSIVE Flatten(_)
Flatten(ss) == IF ss = <<>> THEN <<>> ELSE Head(ss) \o Flatten(Tail(ss))

RECURSIVE TotalLen(_, _)
TotalLen(ss, k) == IF k = 0 THEN 0 ELSE Len(ss[k]) + TotalLen(ss, k - 1)

\* A leaf page of `size` bytes: the 8-byte page header with the cell count
\* at bytes 3 and 4, the cell-pointer array in the order of `cells`, the
\* cells one after the other, zeros to the end.  Pointers count from the
\* start of the page, which for page 1 is start_offset before the buffer.
LeafPage(cells, start_offset, size) ==
    LET n == Len(cells)
        pointers == Flatten([i \in 1..n |->
                        U16BE(start_offset + 8 + 2 * n + TotalLen(cells, i - 1))])
        body == <<13, 0, 0>> \o U16BE(n) \o <<0, 0, 0>> \o pointers
                    \o Flatten(cells)
    IN IF Len(body) >= size THEN SubSeq(body, 1, size)
       ELSE body \o Zeros(size - Len(body))

\* the 100-byte file header: the page size at bytes 16 and 17
FileHeader(page_size) == Zeros(16) \o U16BE(page_size) \o Zeros(82)

\* Catalog cells: cell size, row id, header size, type codes, values.
\* 15 is a text of one byte, 13 the empty text, 1 an Int8, 2 an Int16.
CatalogCells ==
    { <<7, 1, 5, 0, 0, 15, 1, 116, 2>>,        \* "t", root page 2
      <<7, 2, 5, 0, 0, 15, 1, 117, 3>>,        \* "u", root page 3
      <<7, 3, 5, 0, 0, 15, 1, 116, 3>>,        \* "t" again, root page 3
      <<7, 4, 5, 0, 0, 15, 1, 122, 0>>,        \* "z", root page 0
      <<6, 5, 5, 0, 0, 13, 1, 2>>,             \* "", root page 2
      <<7, 6, 5, 0, 0, 15, 1, 110, 255>>,      \* "n", root page byte 0xFF
      <<5, 7, 4, 0, 0, 15, 116>>,              \* "t" and no fourth column
      <<8, 8, 5, 0, 0, 15, 2, 119, 1, 44>>,    \* "w", root page an Int16
      <<7, 9, 5, 0, 0, 15, 1, 255, 2>>,        \* a name that is not UTF-8
      <<1, 10, 0>>,                            \* header size 0
      <<2, 12, 2, 129>>,                       \* a type code cut by the header
      <<3, 13, 3, 129, 5>> }                   \* a text of 60 bytes

\* page 2: three rows of one text each, the row ids not in pointer order
TableCells == << <<3, 3, 2, 15, 97>>, <<3, 1, 2, 15, 98>>, <<3, 2, 2, 15, 99>> >>

\* page 3: a good row, then a row whose text is not UTF-8
BrokenCells == << <<3, 1, 2, 15, 97>>, <<3, 2, 2, 15, 200>> >>

ContainerFile(catalog) ==
    FileHeader(PageSize)
        \o LeafPage(catalog, FileHeaderLen, PageSize - FileHeaderLen)
        \o LeafPage(TableCells, 0, PageSize)
        \o LeafPage(BrokenCells, 0, PageSize)

Containers == {ContainerFile(c) : c \in SeqsUpTo(CatalogCells, MaxCells)}

\* files cut off after the first page's header, one per page size
PageSizes == {512, 1024, 2048, 4096, 16384, 32768}

TruncatedFiles == {FileHeader(ps) \o Zeros(8) : ps \in PageSizes}

FetchPages == {1, 2, 3, 16, 17, 64, 65, 4096, 65535}

\* table names asked for: "t", "T", "u", "n"
QueryNames == {<<116>>, <<84>>, <<117>>, <<110>>}

VarintBytes == {1, 128, 255}

VarintInputs == SeqsUpTo(VarintBytes, MaxVarintLen)

----------------------------------------------------------------------------
(* The operations.  main opens the file and runs one command, so a run is
   one call on a freshly opened Db. *)

Opened(f) ==
    /\ overflow_checks \in BOOLEAN
    /\ file = f
    /\ db = DbNew(f).val
    /\ call = NoCall
    /\ ret = NoRet
    /\ fetched = <<>>

DecodeVarint ==
    /\ call = NoCall
    /\ \E bs \in VarintInputs :
          /\ call' = [op |-> "decode_varint", bytes |-> bs, num |-> 0]
          /\ ret' = decode_varint(bs)
    /\ fetched' = <<>>
    /\ UNCHANGED <<overflow_checks, file, db>>

GetTypeDefinition ==
    /\ call = NoCall
    /\ \E c \in 0..MaxTypeCode :
          /\ call' = [op |-> "get_type_definition", bytes |-> <<>>, num |-> c]
          /\ ret' = get_type_definition(BitsOf(c), overflow_checks)
    /\ fetched' = <<>>
    /\ UNCHANGED <<overflow_checks, file, db>>

GetPage(n) ==
    /\ call = NoCall
    /\ call' = [op |-> "get_page", bytes |-> <<>>, num |-> n]
    /\ ret' = get_page(db, file, n, overflow_checks)
    /\ fetched' = <<fetch_of(db, n, overflow_checks)>>
    /\ UNCHANGED <<overflow_checks, file, db>>

GetTableConfigs ==
    /\ call = NoCall
    /\ call' = [op |-> "get_table_configs", bytes |-> <<>>, num |-> 0]
    /\ ret' = get_table_configs(db, file, overflow_checks)
    /\ fetched' = <<fetch_of(db, 1, overflow_checks)>>
    /\ UNCHANGED <<overflow_checks, file, db>>

GetTableNames ==
    /\ call = NoCall
    /\ call' = [op |-> "get_table_names", bytes |-> <<>>, num |-> 0]
    /\ ret' = get_table_names(db, file, overflow_checks)
    /\ fetched' = <<fetch_of(db, 1, overflow_checks)>>
    /\ UNCHANGED <<overflow_checks, file, db>>

GetTablePage(name) ==
    LET r == get_table_page(db, file, name, overflow_checks)
    IN /\ call = NoCall
       /\ call' = [op |-> "get_table_page", bytes |-> name, num |-> 0]
       /\ ret' = r.out
       /\ fetched' = r.fetched
       /\ UNCHANGED <<overflow_checks, file, db>>

----------------------------------------------------------------------------
(* Specifications *)

\* the record decoder and the catalog, on whole containers
Init == \E f \in Containers : Opened(f)

Next ==
    \/ \E n \in 1..MaxPage : GetPage(n)
    \/ GetTableConfigs
    \/ GetTableNames
    \/ \E name \in QueryNames : GetTablePage(name)

Spec == Init /\ [][Next]_vars

\* decode_varint on byte slices
InitVarint == Opened(FileHeader(PageSize) \o Zeros(8))

NextVarint == DecodeVarint

SpecVarint == InitVarint /\ [][NextVarint]_vars

\* get_type_definition on serial type codes
NextType == GetTypeDefinition

SpecType == InitVarint /\ [][NextType]_vars

\* get_page's seek and read, over page sizes and page numbers
InitFetch == \E f \in TruncatedFiles : Opened(f)

NextFetch == \E n \in FetchPages : GetPage(n)

SpecFetch == InitFetch /\ [][NextFetch]_vars

----------------------------------------------------------------------------
(* What the claims speak of *)

\* the page of the file that holds page n, as the format lays pages out
PageBuffer(n) ==
    IF n = 1 THEN SubSeq(file, FileHeaderLen + 1, db.page_size)
    ELSE SubSeq(file, (n - 1) * db.page_size + 1, n * db.page_size)

PageStart(n) == IF n = 1 THEN FileHeaderLen ELSE 0

\* the i-th entry (from 1) of the cell-pointer array at byte 8 of a page
CellPointer(buf, i) == buf[8 + 2 * (i - 1) + 1] * 256 + buf[8 + 2 * (i - 1) + 2]

CellCount(buf) == buf[4] * 256 + buf[5]

\* the catalog page as get_page decodes it
CatalogPage == get_page(db, file, 1, overflow_checks)

\* column 2 a non-empty text and column 3 a non-zero integer
GoodRow(row) ==
    /\ Len(row) >= 4
    /\ row[3].tag = "String" /\ row[3].s # <<>>
    /\ row[4].tag = "Int" /\ row[4].i # 0

KeptRows == SelectSeq(CatalogPage.val, GoodRow)

KeptNames == [k \in 1..Len(KeptRows) |-> KeptRows[k][3].s]

\* a complete varint: continuation bits on all bytes but the last, which is
\* either the ninth byte or has its top bit clear
IsEncoding(bs) ==
    /\ Len(bs) \in 1..9
    /\ \A i \in 1..(Len(bs) - 1) : bs[i] >= 128
    /\ Len(bs) < 9 => bs[Len(bs)] < 128

\* the value the format gives it: seven bits of each of the first eight
\* bytes, most significant first, and all eight bits of a ninth
RECURSIVE FormatValue(_, _, _)
FormatValue(bs, i, acc) ==
    IF i > Len(bs) THEN acc
    ELSE FormatValue(bs, i + 1,
                     IF i = 9 THEN BitOr(Shl(acc, 8), BitsOf(bs[i]))
                     ELSE BitOr(Shl(acc, 7), BitsOf(bs[i] % 128)))

\* the position of the first byte with a clear top bit among the first
\* eight, or 0
FirstClear(bs) ==
    IF \A i \in 1..Len(bs) : i > 8 \/ bs[i] >= 128 THEN 0
    ELSE CHOOSE i \in 1..Len(bs) :
            /\ i <= 8 /\ bs[i] < 128
            /\ \A j \in 1..(i - 1) : bs[j] >= 128

\* the Type-Code Rule as the claim states it
RuleOfCode(c) ==
    IF c <= 6
    THEN <<<<"Null", "Int8", "Int16", "Int24", "Int32", "Int48", "Int64">>[c + 1],
           BitsOf(<<0, 1, 2, 3, 4, 6, 8>>[c + 1])>>
    ELSE IF c <= 11 THEN <<"Unknown", {}>>
    ELSE IF c % 2 = 0 THEN <<"Unknown", BitsOf((c - 12) \div 2)>>
    ELSE <<"String", BitsOf((c - 13) \div 2)>>

\* a cell's decoding failed the way the claim lists: a varint ran out of
\* bytes, a text is not UTF-8, or a length reaches outside the page buffer
DecodeFailure(c) ==
    \/ c = Err("no next byte")
    \/ c = Err("invalid utf-8 sequence")
    \/ c = Panic("range end index out of range")
    \/ c = Panic("range start index out of range")

\* some cell the page's pointer array lists fails to decode
SomeCellFails(buf, start) ==
    \E i \in 1..CellCount(buf) :
        /\ 8 + 2 * i <= Len(buf)
        /\ CellPointer(buf, i) >= start
        /\ DecodeFailure(decode_cell(buf, CellPointer(buf, i) - start,
                                     overflow_checks))

----------------------------------------------------------------------------
(* The claims *)

\* C1: decode_varint applied to the encoding of a value returns the value
\* the format gives that encoding and the encoding's length.
C1_VarintRoundTrip ==
    (call.op = "decode_varint" /\ IsEncoding(call.bytes))
        => ret = Ok(<<FormatValue(call.bytes, 1, {}), Len(call.bytes)>>)

\* C2: decode_varint succeeds exactly when a byte with a clear top bit is
\* among the first eight or the slice has nine bytes; it then consumes up to
\* that byte, or nine bytes, never more than nine nor than the slice holds;
\* otherwise it fails with a decoding error.
C2_VarintStoppingRule ==
    call.op = "decode_varint" =>
        LET bs == call.bytes
            p == FirstClear(bs)
        IN /\ (ret.kind = "Ok") <=> (p > 0 \/ Len(bs) >= 9)
           /\ ret.kind = "Ok" =>
                 /\ ret.val[2] = (IF p > 0 THEN p ELSE 9)
                 /\ ret.val[2] <= 9
                 /\ ret.val[2] <= Len(bs)
           /\ ret.kind # "Ok" => ret = Err("no next byte")

\* C2's case: nine continuation bytes and more, decoded with nine consumed
C2_NineBytesConsumed ==
    /\ call.op = "decode_varint"
    /\ Len(call.bytes) > 9
    /\ \A i \in 1..9 : call.bytes[i] >= 128
    /\ ret.kind = "Ok"
    /\ ret.val[2] = 9

\* C3: get_page reads page_size - 100 bytes at offset 100 for page 1, and
\* page_size bytes at offset (N-1)*page_size for every other page N.
C3_PageOffsetLaw ==
    call.op = "get_page" =>
        fetched = << IF call.num = 1
                     THEN <<1, 100, db.page_size - 100>>
                     ELSE <<call.num, (call.num - 1) * db.page_size,
                            db.page_size>> >>

\* C4: get_type_definition follows the Type-Code Rule on every code,
\* the codes 7 to 11 giving an Unrecognized descriptor of width 0.
C4_TypeCodeRule ==
    call.op = "get_type_definition" => ret = Ok(RuleOfCode(call.num))

\* C5: the entries of get_table_configs and the names of get_table_names
\* are those of the catalog rows whose column 2 is a non-empty text and whose
\* column 3 is a non-zero integer, in catalog order; no other row gives one.
C5_CatalogFiltering ==
    /\ (call.op = "get_table_names" /\ CatalogPage.kind = "Ok")
          => ret = Ok(KeptNames)
    /\ (call.op = "get_table_configs" /\ CatalogPage.kind = "Ok")
          => ret = Ok([k \in 1..Len(KeptRows) |->
                          [table_name |-> KeptRows[k][3].s,
                           page_number |-> KeptRows[k][4].i]])

\* C5's case: a row with a name and root page 0 is dropped, the row after it
\* is kept
C5_RowDropped ==
    /\ call.op = "get_table_names"
    /\ CatalogPage.kind = "Ok"
    /\ Len(CatalogPage.val) = 2
    /\ Len(CatalogPage.val[1]) = 4
    /\ CatalogPage.val[1][3].s # <<>>
    /\ CatalogPage.val[1][4] = DataInt(0)
    /\ ret.kind = "Ok"
    /\ Len(ret.val) = 1

\* C6: get_table_page of a name that no catalog entry has, compared byte by
\* byte, fails with the not-found error, and page 1 is the only page fetched.
C6_NotFound ==
    (/\ call.op = "get_table_page"
     /\ CatalogPage.kind = "Ok"
     /\ \A k \in 1..Len(KeptNames) : KeptNames[k] # call.bytes)
        => /\ ret = Err("No data for table")
           /\ fetched = << <<1, 100, db.page_size - 100>> >>

\* C6's case: "T" is asked for and the catalog holds "t"
C6_OtherCaseNotFound ==
    /\ call.op = "get_table_page"
    /\ call.bytes = <<84>>
    /\ CatalogPage.kind = "Ok"
    /\ \E k \in 1..Len(KeptNames) : KeptNames[k] = <<116>>
    /\ ret = Err("No data for table")
    /\ Len(fetched) = 1

\* C7: when a cell of the page fails to decode, get_page returns an error
\* and no rows, and get_table_names and get_table_page fail as well.
C7_NoPartialResults ==
    /\ (/\ call.op = "get_page"
        /\ call.num < MaxPage
        /\ SomeCellFails(PageBuffer(call.num), PageStart(call.num)))
          => ret.kind = "Err" /\ ret.val = <<>>
    /\ (/\ call.op \in {"get_table_names", "get_table_page"}
        /\ SomeCellFails(PageBuffer(1), PageStart(1)))
          => ret.kind = "Err"

C9_RootPageLookup ==
    (/\ call.op = "get_table_page"
     /\ CatalogPage.kind = "Ok"
     /\ \E k \in 1..Len(KeptNames) : KeptNames[k] = call.bytes)
        => LET k == CHOOSE j \in 1..Len(KeptNames) :
                       /\ KeptNames[j] = call.bytes
                       /\ \A o \in 1..(j - 1) : KeptNames[o] # call.bytes
           IN /\ Len(fetched) = 2
              /\ fetched[1][1] = 1
              /\ fetched[2][1] = KeptRows[k][4].i

\* C10: in every cell get_page decodes without error, the cursor after the
\* type codes is the header's start plus its declared length.
C10_HeaderLengthBound ==
    (call.op = "get_page" /\ ret.kind = "Ok") =>
        LET buf == PageBuffer(call.num)
            start == PageStart(call.num)
        IN \A i \in 1..Len(ret.val) :
              LET h == decode_header(buf, CellPointer(buf, i) - start,
                                     overflow_checks)
              IN /\ h.kind = "Ok"
                 /\ h.val.row_offset = h.val.header_start + h.val.header_size

============================================================================
